---- MODULE Spec2Model ----
(***************************************************************************)
(* Model of instrumental/drivers/lasers/femto_ferb.py: the factory         *)
(* _instrument, the FemtoFiber handle and its transport calls.             *)
(*                                                                         *)
(* The transport (the visa instrument object) is the environment.  The     *)
(* handle calls four things on it: visa.instrument(port), ask(message),    *)
(* read(termination) and close().  ask is taken as the transport's send    *)
(* and read as the transport's read of one terminated line; any of them    *)
(* may raise, and what they raise is not caught by the handle.  The device  *)
(* answers a command with one line at once, or never (the read then times  *)
(* out).  One handle is followed: the factory is called again only after a *)
(* call that raised InstrumentTypeError.                                   *)
(***************************************************************************)
EXTENDS Naturals, Sequences, FiniteSets, TLC

(* ------------------------------ bounds -------------------------------- *)

\* Invocations of public methods on a returned handle, over all callers.
MaxOps == 2

\* Calls to the factory _instrument.
MaxFactoryCalls == 2

(* ------------------------- Python values ------------------------------ *)

\* A Python value is <<type, text>>; an int 0 and a str "0" differ.
PyBool(b) == <<"bool", IF b THEN "True" ELSE "False">>
PyStr(s)  == <<"str", s>>
PyNone    == <<"NoneType", "None">>
Raised(e) == <<"raise", e>>

\* int(s) for the decimal strings the model's device can send.
int(s) == IF s \in {"0", "00"} THEN <<"int", "0">> ELSE Raised("ValueError")

\* '{}'.format(v): the text of the value.
format(v) == v[2]

(* --------------------------- module data ------------------------------ *)

TRUE_TOKEN  == "#t"
FALSE_TOKEN == "#f"

\* bool_dict as its items, in one iteration order.
bool_dict == << <<"#t", PyBool(TRUE)>>, <<"#f", PyBool(FALSE)>> >>

bool_dict_keys == {bool_dict[i][1] : i \in 1..Len(bool_dict)}

\* Variant: bool_dict.get(message, False).
bool_dict_get_default(message) ==
    IF message \in bool_dict_keys
    THEN (CHOOSE it \in {bool_dict[i] : i \in 1..Len(bool_dict)} : it[1] = message)[2]
    ELSE PyBool(FALSE)

\* bool_dict[message]: KeyError when message is no key.
bool_dict_get(message) ==
    IF message \in bool_dict_keys
    THEN (CHOOSE it \in {bool_dict[i] : i \in 1..Len(bool_dict)} : it[1] = message)[2]
    ELSE Raised("KeyError")

\* The loop "for key, item in bool_dict.iteritems(): if item == control:
\* control = key", over the items from index i on.
RECURSIVE encode_from(_, _)
encode_from(i, control) ==
    IF i > Len(bool_dict) THEN control
    ELSE encode_from(i + 1, IF bool_dict[i][2] = control
                            THEN PyStr(bool_dict[i][1])
                            ELSE control)

\* Variant: the lookup loop left out, the Python bool formatted as it is.
encode_skip(control) == control

encode(control) == encode_from(1, control)

(* ----------------------------- inputs --------------------------------- *)

Callers == {"main", "other"}

\* Lines the device may answer with.
Lines == {"0", "00", "12: overtemp", "#t", "#f"}

\* Option names a configuration mapping may hold, and addresses.
Keys  == {"femto_ferb_port", "port"}
Addrs == {"COM3"}
ParamsSet == UNION {[K -> Addrs] : K \in SUBSET Keys}

QueryOps    == {"is_control_on", "is_on"}
MutatingOps == {"set_control", "turn_on", "turn_off"}
PublicOps   == QueryOps \cup MutatingOps
Args(op)    == IF op = "set_control" THEN {PyBool(TRUE), PyBool(FALSE)} ELSE {PyNone}

(* ---------------- methods as sequences of transport calls ------------- *)

Call(c, m) == [call |-> c, msg |-> m]

\* Variant: the command goes out and its answer is left unread.
_ask_noread(message) == << Call("ask", message) >>

\* _ask: self._inst.ask(message), then self._inst.read(termination='\n').
_ask(message) == << Call("ask", message), Call("read", "") >>

is_control_on == _ask("(param-ref hw-input-dis)")

set_control(control) ==
    _ask("(param-set! hw-input-dis " \o format(encode(control)) \o ")")

is_on == _ask("(param-ref laser:en)")

\* Variant: the emission command sent without reading its answer.
_set_emission_noread(control) ==
    << Call("ask", "(param-set! laser:en " \o format(encode(control)) \o ")") >>

_set_emission(control) ==
    _ask("(param-set! laser:en " \o format(encode(control)) \o ")")

turn_on  == _set_emission(PyBool(TRUE))
turn_off == _set_emission(PyBool(FALSE))

close == << Call("close", "") >>

\* Variant: the constructor reads the setting back after setting it.
__init__verify(port) ==
    << Call("open", format(port)) >> \o set_control(PyBool(TRUE)) \o is_control_on

\* __init__: visa.instrument(port), then self.set_control(True).
__init__(port) == << Call("open", format(port)) >> \o set_control(PyBool(TRUE))

Program(op, arg) ==
    CASE op = "__init__"      -> __init__(arg)
      [] op = "is_control_on" -> is_control_on
      [] op = "set_control"   -> set_control(arg)
      [] op = "is_on"         -> is_on
      [] op = "turn_on"       -> turn_on
      [] op = "turn_off"      -> turn_off
      [] op = "close"         -> close

(* --------------------------- return values ---------------------------- *)

\* Variant: the response compared as a number, int(error) == 0.
IsZeroNumber(error) == int(error) = <<"int", "0">>

\* The test "error == '0'" of _ask.
IsZeroString(error) == error = "0"

\* What _ask returns for the line it read.
_ask_return(message, return_error) ==
    IF return_error
    THEN IF IsZeroString(message) THEN int(message) ELSE PyStr(message)
    ELSE PyStr(message)

\* A query method: message = self._ask(...); return bool_dict[message].
query_return(message) == bool_dict_get(format(_ask_return(message, FALSE)))

\* Variant: the constructor raises on a device error.
__init__return_checked(error) ==
    IF error = <<"int", "0">> THEN PyNone ELSE Raised("DeviceError")

\* __init__ drops what set_control(True) returned.
__init__return(error) == PyNone

Return(op, line) ==
    CASE op = "__init__"  -> __init__return(_ask_return(line, TRUE))
      [] op \in QueryOps    -> query_return(line)
      [] op \in MutatingOps -> _ask_return(line, TRUE)
      [] op = "close"       -> PyNone

\* Variant: close guarded against a connection already closed.
close_count_guarded(connection, n) == IF connection = "closed" THEN n ELSE n + 1

\* close: self._inst.close(), whatever the state of the connection.
close_count(connection, n) == n + 1

\* Variant: the constructor closes the connection when it fails.
__init__cleanup_closes(n) == n + 1

\* __init__ has no try/except: a raise inside it closes nothing.
__init__cleanup(n) == n

(* ------------------------------ state --------------------------------- *)

VARIABLES
    conn,          \* the transport connection: "none", "open" or "closed"
    handle,        \* what the factory gave its caller: "none", "returned", "failed"
    params,        \* the configuration mapping of the latest factory call
    inv,           \* per caller, its current or latest invocation
    wire,          \* lines the device has answered and nobody has read yet
    opens,         \* calls of visa.instrument
    closes,        \* calls of the transport's close
    closeCalls,    \* invocations of the handle's close()
    nSent,         \* commands given to the transport's ask
    nRead,         \* lines got from the transport's read
    nOps,          \* public methods invoked on the handle
    factoryCalls,  \* calls of _instrument
    faults,        \* transport calls that raised
    overlapped,    \* an invocation began while another was still running
    desync         \* some caller read the answer to a command that was not its own

vars == << conn, handle, params, inv, wire, opens, closes, closeCalls, nSent,
           nRead, nOps, factoryCalls, faults, overlapped, desync >>

Idle == [op |-> "none", arg |-> PyNone, pc |-> 0, st |-> "idle",
         sent |-> <<>>, lines |-> <<>>, cmd |-> 0, res |-> PyNone]

Start(op, arg) == [Idle EXCEPT !.op = op, !.arg = arg, !.pc = 1, !.st = "run"]

Running(c) == inv[c].st = "run"

NextCall(c) == Program(inv[c].op, inv[c].arg)[inv[c].pc]

LastLine(lines) == IF lines = <<>> THEN "" ELSE lines[Len(lines)]

\* The invocation after one more transport call returned normally.
Advance(r) ==
    LET r2 == [r EXCEPT !.pc = @ + 1]
    IN  IF r2.pc > Len(Program(r.op, r.arg))
        THEN [r2 EXCEPT !.st = "done", !.cmd = 0,
                        !.res = Return(r.op, LastLine(r2.lines))]
        ELSE r2

\* The invocation after a transport call raised: nothing catches it.
Raise(r, e) == [r EXCEPT !.st = "done", !.cmd = 0, !.res = Raised(e)]

HasRaised(r) == r.st = "done" /\ r.res[1] = "raise"

\* What the factory's caller holds once the invocation r of __init__ is over.
HandleAfter(r) ==
    IF r.op = "__init__" /\ r.st = "done"
    THEN IF r.res[1] = "raise" THEN "failed" ELSE "returned"
    ELSE handle

ClosesAfterRaise(r) == IF r.op = "__init__" THEN __init__cleanup(closes) ELSE closes

Init ==
    /\ conn = "none"
    /\ handle = "none"
    /\ params = << >>
    /\ inv = [c \in Callers |-> Idle]
    /\ wire = << >>
    /\ opens = 0 /\ closes = 0 /\ closeCalls = 0
    /\ nSent = 0 /\ nRead = 0 /\ nOps = 0 /\ factoryCalls = 0 /\ faults = 0
    /\ overlapped = FALSE
    /\ desync = FALSE

(* ----------------------------- _instrument ---------------------------- *)

\* Variant: any option of the mapping taken as the port.
factory_d_any(p) ==
    [k \in (IF DOMAIN p # {} THEN {"port"} ELSE {})
        |-> p[CHOOSE x \in DOMAIN p : TRUE]]

\* d = {}; if 'femto_ferb_port' in params: d['port'] = params['femto_ferb_port']
factory_d(p) ==
    [k \in (IF "femto_ferb_port" \in DOMAIN p THEN {"port"} ELSE {})
        |-> p["femto_ferb_port"]]

\* if not d: raise InstrumentTypeError(); return FemtoFiber(**d)
_instrument(p) ==
    LET d == factory_d(p)
    IN  IF DOMAIN d = {}
        THEN Raise(Start("_instrument", PyNone), "InstrumentTypeError")
        ELSE Start("__init__", PyStr(d["port"]))

Factory(p) ==
    /\ handle = "none"
    /\ ~Running("main")
    /\ factoryCalls < MaxFactoryCalls
    /\ factoryCalls' = factoryCalls + 1
    /\ params' = p
    /\ inv' = [inv EXCEPT !["main"] = _instrument(p)]
    /\ UNCHANGED << conn, handle, wire, opens, closes, closeCalls, nSent, nRead,
                    nOps, faults, overlapped, desync >>

(* ------------------------- calls on the handle ------------------------ *)

Invoke(c, op, arg) ==
    /\ handle = "returned"
    /\ ~Running(c)
    /\ nOps < MaxOps
    /\ nOps' = nOps + 1
    /\ closeCalls' = IF op = "close" THEN closeCalls + 1 ELSE closeCalls
    /\ inv' = [inv EXCEPT ![c] = Start(op, arg)]
    /\ overlapped' = (overlapped \/ \E d \in Callers \ {c} : Running(d))
    /\ UNCHANGED << conn, handle, params, wire, opens, closes, nSent, nRead,
                    factoryCalls, faults, desync >>

(* ---------------------------- transport calls ------------------------- *)

\* visa.instrument(port) returns a connection.
Open(c) ==
    /\ Running(c) /\ NextCall(c).call = "open"
    /\ opens' = opens + 1
    /\ conn' = "open"
    /\ inv' = [inv EXCEPT ![c] = Advance(@)]
    /\ handle' = HandleAfter(inv'[c])
    /\ UNCHANGED << params, wire, closes, closeCalls, nSent, nRead, nOps,
                    factoryCalls, faults, overlapped, desync >>

\* visa.instrument(port) raises: there is no connection.
OpenFails(c) ==
    /\ Running(c) /\ NextCall(c).call = "open"
    /\ opens' = opens + 1
    /\ faults' = faults + 1
    /\ inv' = [inv EXCEPT ![c] = Raise(@, "TransportError")]
    /\ handle' = HandleAfter(inv'[c])
    /\ UNCHANGED << conn, params, wire, closes, closeCalls, nSent, nRead, nOps,
                    factoryCalls, overlapped, desync >>

\* self._inst.ask(message): the command goes out; the device answers it with
\* one line, or stays silent.
Ask(c, answer) ==
    /\ Running(c) /\ NextCall(c).call = "ask"
    /\ conn = "open"
    /\ nSent' = nSent + 1
    /\ wire' = wire \o [i \in 1..Len(answer) |-> [id |-> nSent', line |-> answer[i]]]
    /\ inv' = [inv EXCEPT ![c] =
                 Advance([@ EXCEPT !.sent = Append(@, NextCall(c).msg),
                                   !.cmd = nSent'])]
    /\ handle' = HandleAfter(inv'[c])
    /\ UNCHANGED << conn, params, opens, closes, closeCalls, nRead, nOps,
                    factoryCalls, faults, overlapped, desync >>

\* self._inst.ask(message) raises (always so on a closed connection).
AskFails(c) ==
    /\ Running(c) /\ NextCall(c).call = "ask"
    /\ faults' = faults + 1
    /\ inv' = [inv EXCEPT ![c] = Raise(@, "TransportError")]
    /\ handle' = HandleAfter(inv'[c])
    /\ closes' = ClosesAfterRaise(inv[c])
    /\ UNCHANGED << conn, params, wire, opens, closeCalls, nSent, nRead, nOps,
                    factoryCalls, overlapped, desync >>

\* self._inst.read(termination='\n') returns the oldest unread line.
Read(c) ==
    /\ Running(c) /\ NextCall(c).call = "read"
    /\ conn = "open"
    /\ wire # << >>
    /\ nRead' = nRead + 1
    /\ wire' = Tail(wire)
    /\ desync' = (desync \/ Head(wire).id # inv[c].cmd)
    /\ inv' = [inv EXCEPT ![c] = Advance([@ EXCEPT !.lines = Append(@, Head(wire).line)])]
    /\ handle' = HandleAfter(inv'[c])
    /\ UNCHANGED << conn, params, opens, closes, closeCalls, nSent, nOps,
                    factoryCalls, faults, overlapped >>

\* self._inst.read raises: no line arrives (a timeout), or the connection
\* is closed.
ReadFails(c) ==
    /\ Running(c) /\ NextCall(c).call = "read"
    /\ conn # "open" \/ wire = << >>
    /\ faults' = faults + 1
    /\ inv' = [inv EXCEPT ![c] = Raise(@, "TransportError")]
    /\ handle' = HandleAfter(inv'[c])
    /\ closes' = ClosesAfterRaise(inv[c])
    /\ UNCHANGED << conn, params, wire, opens, closeCalls, nSent, nRead, nOps,
                    factoryCalls, overlapped, desync >>

\* self._inst.close()
Close(c) ==
    /\ Running(c) /\ NextCall(c).call = "close"
    /\ closes' = close_count(conn, closes)
    /\ conn' = "closed"
    /\ inv' = [inv EXCEPT ![c] = Advance(@)]
    /\ UNCHANGED << handle, params, wire, opens, closeCalls, nSent, nRead, nOps,
                    factoryCalls, faults, overlapped, desync >>

Answers == {<< >>} \cup {<<l>> : l \in Lines}

Next ==
    \/ \E p \in ParamsSet : Factory(p)
    \/ \E c \in Callers, op \in PublicOps \cup {"close"} :
          \E arg \in Args(op) : Invoke(c, op, arg)
    \/ \E c \in Callers : Open(c)
    \/ \E c \in Callers : OpenFails(c)
    \/ \E c \in Callers, a \in Answers : Ask(c, a)
    \/ \E c \in Callers : AskFails(c)
    \/ \E c \in Callers : Read(c)
    \/ \E c \in Callers : ReadFails(c)
    \/ \E c \in Callers : Close(c)

Spec == Init /\ [][Next]_vars

(* ------------------------------ claims -------------------------------- *)

Done(c)     == inv[c].st = "done"
Quiescent   == \A c \in Callers : ~Running(c)
TransportRaised(c) == Done(c) /\ inv[c].res = Raised("TransportError")

InitCommand == "(param-set! hw-input-dis #t)"

\* C1: a mutating method (set_control, turn_on, turn_off) that read the line r
\* returns the int 0 exactly when r is the string "0", and for every other r
\* returns the str r itself; it raises nothing.
C1_MutatingReturn ==
    \A c \in Callers :
        (Done(c) /\ inv[c].op \in MutatingOps /\ inv[c].lines # << >>) =>
            LET r == inv[c].lines[1]
            IN  /\ (inv[c].res = <<"int", "0">>) <=> (r = "0")
                /\ (r # "0") => (inv[c].res = <<"str", r>>)
                /\ inv[c].res[1] # "raise"

C1_Witness ==
    \E c, d \in Callers :
        /\ Done(c) /\ inv[c].op = "set_control" /\ inv[c].lines = <<"00">>
        /\ inv[c].res = <<"str", "00">>
        /\ Done(d) /\ inv[d].op = "turn_on" /\ inv[d].lines = <<"0">>
        /\ inv[d].res = <<"int", "0">>

\* C2: a call of _instrument with a mapping that lacks 'femto_ferb_port' raises
\* InstrumentTypeError, and that call opens no connection and sends no command.
C2_MissingPortKey ==
    [][(factoryCalls' # factoryCalls /\ "femto_ferb_port" \notin DOMAIN params') =>
          /\ inv'["main"].st = "done"
          /\ inv'["main"].res = Raised("InstrumentTypeError")
          /\ inv'["main"].op = "_instrument" /\ inv'["main"].sent = << >>
          /\ opens' = opens /\ nSent' = nSent /\ conn' = conn
          /\ handle' = "none"]_vars

C2_Witness ==
    /\ DOMAIN params = {"port"}
    /\ inv["main"].res = Raised("InstrumentTypeError")
    /\ opens = 0 /\ nSent = 0 /\ conn = "none"

\* C3: when construction returns, the connection has been opened and exactly one
\* command, (param-set! hw-input-dis #t), has been sent; construction sends no
\* other command, and sends only once the connection is open.
C3_InitSendsOnce ==
    /\ (handle = "returned" /\ nOps = 0) =>
          /\ conn = "open" /\ opens = 1 /\ nSent = 1
          /\ inv["main"].op = "__init__" /\ inv["main"].sent = << InitCommand >>
    /\ \A c \in Callers :
          inv[c].op = "__init__" =>
             /\ inv[c].sent \in {<< >>, << InitCommand >>}
             /\ (inv[c].sent # << >>) => (inv[c].pc > 1 /\ conn # "none" /\ opens > 0)
    /\ (nSent > 0) => (opens > 0 /\ conn # "none")

C3_Witness ==
    /\ handle = "returned" /\ nOps = 0
    /\ inv["main"].sent = << InitCommand >> /\ conn = "open"

\* C4 as stated: every invocation of a public method other than close has sent
\* exactly one command and read exactly one line when it is over, so with a
\* single caller the lines read equal the commands sent between invocations.
C4_Original ==
    /\ \A c \in Callers :
          (Done(c) /\ inv[c].op \in PublicOps) =>
              (Len(inv[c].sent) = 1 /\ Len(inv[c].lines) = 1)
    /\ (Quiescent /\ ~overlapped) => (nRead = nSent)

\* C4 as amended: an invocation of a public method other than close calls the
\* transport's ask at most once (one command) and its read at most once (one
\* line), the read after the ask; one that ends
\* without a transport error has sent exactly one and read exactly one, one that
\* ends with a transport error has read none; with a single caller and no
\* transport error the lines read equal the commands sent between invocations.
C4_Amended ==
    /\ \A c \in Callers :
          inv[c].op \in PublicOps =>
              /\ Len(inv[c].sent) <= 1
              /\ Len(inv[c].lines) <= Len(inv[c].sent)
              /\ (Done(c) /\ ~TransportRaised(c)) =>
                     (Len(inv[c].sent) = 1 /\ Len(inv[c].lines) = 1)
              /\ TransportRaised(c) => (Len(inv[c].lines) = 0)
    /\ (Quiescent /\ ~overlapped /\ faults = 0) => (nRead = nSent)

C4_Witness ==
    /\ Quiescent /\ ~overlapped /\ nOps >= 2
    /\ \E c, d \in Callers :
          /\ inv[c].op = "is_on" /\ Done(c) /\ ~TransportRaised(c)
          /\ Len(inv[c].sent) = 1 /\ Len(inv[c].lines) = 1
          /\ inv[d].op = "turn_on" /\ TransportRaised(d)
          /\ Len(inv[d].sent) = 1 /\ Len(inv[d].lines) = 0
    /\ nRead < nSent

\* C5: set_control(b) sends exactly (param-set! hw-input-dis T) and turn_on /
\* turn_off send exactly (param-set! laser:en T) for b true / false, T being #t
\* for true and #f for false, the one token bool_dict maps back to b; turn_on
\* and turn_off send nothing else.
C5_CommandEncoding ==
    /\ \A c \in Callers :
          LET expected ==
                CASE inv[c].op = "set_control" /\ inv[c].arg = PyBool(TRUE)
                        -> "(param-set! hw-input-dis #t)"
                  [] inv[c].op = "set_control" /\ inv[c].arg = PyBool(FALSE)
                        -> "(param-set! hw-input-dis #f)"
                  [] inv[c].op = "turn_on"  -> "(param-set! laser:en #t)"
                  [] inv[c].op = "turn_off" -> "(param-set! laser:en #f)"
                  [] OTHER -> ""
          IN  inv[c].op \in MutatingOps =>
                 /\ inv[c].sent \in {<< >>, << expected >>}
                 /\ (inv[c].pc > 1 \/ inv[c].lines # << >>) => inv[c].sent = << expected >>
    /\ \A b \in BOOLEAN :
          LET T == IF b THEN "#t" ELSE "#f"
          IN  /\ encode(PyBool(b)) = PyStr(T)
              /\ bool_dict_get(T) = PyBool(b)
              /\ \A t \in bool_dict_keys : bool_dict_get(t) = PyBool(b) => t = T
              /\ encode(bool_dict_get(T)) = PyStr(T)

C5_Witness ==
    \E c, d \in Callers :
        /\ inv[c].op = "turn_off" /\ inv[c].sent = <<"(param-set! laser:en #f)">>
        /\ inv[d].op = "set_control" /\ inv[d].arg = PyBool(FALSE)
        /\ inv[d].sent = <<"(param-set! hw-input-dis #f)">>

\* C6: is_control_on sends (param-ref hw-input-dis) and is_on sends
\* (param-ref laser:en); on the line #t it returns True, on #f False, and on any
\* other line it raises KeyError, having sent one command only and with the
\* connection still open when nobody has called close.
C6_QueryDecode ==
    \A c \in Callers :
        LET expected == IF inv[c].op = "is_control_on"
                        THEN "(param-ref hw-input-dis)" ELSE "(param-ref laser:en)"
        IN  inv[c].op \in QueryOps =>
               /\ inv[c].sent \in {<< >>, << expected >>}
               /\ (Done(c) /\ inv[c].lines # << >>) =>
                     LET r == inv[c].lines[1]
                     IN  /\ inv[c].sent = << expected >>
                         /\ Len(inv[c].lines) = 1
                         /\ (r = "#t") => inv[c].res = <<"bool", "True">>
                         /\ (r = "#f") => inv[c].res = <<"bool", "False">>
                         /\ (r \notin {"#t", "#f"}) => inv[c].res = Raised("KeyError")
                         /\ (closeCalls = 0) => (conn = "open" /\ handle = "returned")

C6_Witness ==
    \E c, d \in Callers :
        /\ inv[c].op = "is_on" /\ Done(c) /\ inv[c].lines = <<"12: overtemp">>
        /\ inv[c].res = Raised("KeyError") /\ inv[c].sent = <<"(param-ref laser:en)">>
        /\ inv[d].op = "is_control_on" /\ Done(d) /\ inv[d].lines = <<"#f">>
        /\ inv[d].res = <<"bool", "False">>
        /\ conn = "open"

\* C7: once the constructor has read the device's line for the initialization
\* command, whatever the line, construction is over without raising and the
\* caller holds a handle on an open connection.
C7_InitIgnoresResponse ==
    \A c \in Callers :
        (inv[c].op = "__init__" /\ inv[c].lines # << >>) =>
            /\ Done(c) /\ inv[c].res = PyNone
            /\ handle = "returned"
            /\ (nOps = 0) => conn = "open"

C7_Witness ==
    /\ inv["main"].op = "__init__" /\ inv["main"].lines = <<"12: overtemp">>
    /\ handle = "returned" /\ conn = "open" /\ nOps = 0

\* C8: every close() calls the transport's close exactly once, also on a closed
\* connection, and sends no command; the call leaves the connection closed, and
\* nothing takes a closed connection back to open.
C8_CloseLifecycle ==
    /\ [](closes + Cardinality({c \in Callers : Running(c) /\ inv[c].op = "close"})
             = closeCalls)
    /\ [][(closes' # closes) =>
             (closes' = closes + 1 /\ nSent' = nSent /\ conn' = "closed")]_vars
    /\ [][(conn = "closed") => (conn' = "closed")]_vars
    /\ [](\A c \in Callers : inv[c].op = "close" => inv[c].sent = << >>)

C8_Witness ==
    /\ closes = 2 /\ closeCalls = 2 /\ conn = "closed"
    /\ \A c \in Callers : inv[c].op = "close" /\ Done(c)

C10_InitFailureLeaksConnection ==
    \A c \in Callers :
        (inv[c].op = "__init__" /\ HasRaised(inv[c]) /\ inv[c].pc > 1) =>
            /\ inv[c].res = Raised("TransportError")
            /\ handle = "failed"
            /\ closes = 0 /\ closeCalls = 0 /\ nOps = 0
            /\ conn = "open"

C10_Witness ==
    /\ inv["main"].op = "__init__" /\ TransportRaised("main")
    /\ inv["main"].sent = << InitCommand >> /\ inv["main"].lines = << >>
    /\ handle = "failed" /\ conn = "open" /\ closes = 0

====
